---- MODULE Spec2Model ----
(***************************************************************************)
(* Model of dvgrab.py: the capture-session lifecycle of the dvgrab GUI.    *)
(*                                                                         *)
(* Strings are sequences of atoms.  An atom is a one-character string, or  *)
(* a fixed literal of the program kept whole ("-format", "clip-", ...).    *)
(* Directory names are spelled out character by character because the     *)
(* allocator formats an index into a name (str) and parses names back      *)
(* (regular expression + int).                                             *)
(***************************************************************************)
EXTENDS Integers, Sequences, FiniteSets, TLC

(* ------------------------------ bounds -------------------------------- *)
\* calls of find_next_subfolder (by start_capture or copy_command) in a run
\* that explores the allocator
MaxAllocs == 2
\* external processes spawned in a run that explores restarting
MaxSessions == 2
\* chunks the external processes write in a run that explores the streams
MaxWrites == 2
\* stop_capture calls that get past the "no process" test in a run that
\* explores stopping
MaxStops == 1
\* save_settings calls in a run that explores the allocator
MaxSaves == 1
\* handler calls that return at once (start_capture with a capture running
\* or without dvgrab, stop_capture without a process) in a run that explores
\* stopping
MaxRefused == 2
\* copy_command calls in a run that explores the filling of the log
MaxCopies == 3

(* --------------------------- program constants ------------------------ *)
\* LOG_LINES_MAX (5000 in the source), scaled down so that trimming happens
LOG_LINES_MAX == 4

\* None where a tag or a signal is expected
None == "None"
\* None where a string or a path is expected
NoneStr == <<"None">>
\* self.proc = None (process ids start at 1)
NoProc == 0

(* ------------------------------ strings ------------------------------- *)
Digits == <<"0", "1", "2", "3", "4", "5", "6", "7", "8", "9">>

IsDigit(c) == \E i \in 1..10 : Digits[i] = c

DigitVal(c) == (CHOOSE i \in 1..10 : Digits[i] = c) - 1

\* all characters of s are decimal digits (str.isdigit is false on "")
AllDigits(s) == Len(s) > 0 /\ \A i \in 1..Len(s) : IsDigit(s[i])

\* int(s) for a string of decimal digits
RECURSIVE ParseInt(_)
ParseInt(s) ==
    IF Len(s) = 0 THEN 0
    ELSE 10 * ParseInt(SubSeq(s, 1, Len(s) - 1)) + DigitVal(s[Len(s)])

\* str(n) for n >= 0
RECURSIVE IntToStr(_)
IntToStr(n) ==
    IF n < 10 THEN <<Digits[n + 1]>>
    ELSE IntToStr(n \div 10) \o <<Digits[(n % 10) + 1]>>

Max(a, b) == IF a >= b THEN a ELSE b

SeqToSet(s) == {s[i] : i \in 1..Len(s)}

(* ---------------------------- file system ----------------------------- *)
\* str(Path.cwd()), what Path("").expanduser().resolve() gives
Cwd == <<"/cwd">>

\* values of the "output directory" field: empty, or an absolute path
OutputDirs == {<<>>, <<"/v">>}

\* values of the "subfolder prefix" field after .strip()
PrefixFields == {<<>>, <<"t", "a", "p", "e", "1">>}

Tape == <<"t", "a", "p", "e">>

\* base_dir.expanduser().resolve(), as str: the key of next_index_by_dir
resolve(base_dir) == IF base_dir = <<>> THEN Cwd ELSE base_dir

Keys == {resolve(d) : d \in OutputDirs}

Dir(n) == [name |-> n, is_dir |-> TRUE]
File(n) == [name |-> n, is_dir |-> FALSE]

\* contents the base directory /v may have when the program starts
InitialChildren ==
    { {},
      {Dir(Tape \o <<"1">>), Dir(Tape \o <<"3">>)},
      {File(Tape \o <<"1">>)},
      {Dir(Tape \o <<"1", "1">>)} }

\* next_index_by_dir as load_config may find it in the configuration file
InitialNextMaps ==
    { <<>>,
      [k \in {<<"/v">>} |-> 2],
      [k \in {<<"/v">>} |-> 5] }

(* ------------------------- Directory Allocator ------------------------ *)
\* pat.match(name): ^ re.escape(prefix) (\d+) $
PatMatch(prefix, name) ==
    /\ Len(name) > Len(prefix)
    /\ SubSeq(name, 1, Len(prefix)) = prefix
    /\ AllDigits(SubSeq(name, Len(prefix) + 1, Len(name)))

\* int(m.group(1))
PatGroup(prefix, name) == ParseInt(SubSeq(name, Len(prefix) + 1, Len(name)))

\* the test that lets an entry of the scan count: p.is_dir() and a match
Counts_files(prefix, p) == PatMatch(prefix, p.name)
Counts(prefix, p) == p.is_dir /\ PatMatch(prefix, p.name)

\* max_found after the loop has visited the entries in scanned
MaxFound(prefix, scanned) ==
    LET ns == {PatGroup(prefix, p.name) : p \in {q \in scanned : Counts(prefix, q)}}
    IN  IF ns = {} THEN 0 ELSE CHOOSE n \in ns : \A m \in ns : m <= n

\* The entries the loop visits.  iterdir() or is_dir() may raise at any
\* entry; the exception ends the loop and is swallowed, so the loop has seen
\* an arbitrary subset of the children (all of them when nothing fails).
Scans_reliable(children) == {children}
Scans(children) == SUBSET children

\* start_idx = int(next_map.get(key, 1))
StartIdx(next_map, key) == IF key \in DOMAIN next_map THEN next_map[key] ELSE 1

\* idx = max(start_idx, max_found + 1)
NextIdx_counter_only(start_idx, max_found) == start_idx
NextIdx_no_counter(start_idx, max_found) == max_found + 1
NextIdx(start_idx, max_found) == Max(start_idx, max_found + 1)

\* next_map[key] = idx + 1 (the dictionary of cfg is updated in place)
StoreNext_same(next_map, key, idx) ==
    [k \in DOMAIN next_map \cup {key} |-> IF k = key THEN idx ELSE next_map[k]]
StoreNext(next_map, key, idx) ==
    [k \in DOMAIN next_map \cup {key} |-> IF k = key THEN idx + 1 ELSE next_map[k]]

\* find_next_subfolder(base_dir, prefix, cfg): the candidate and the new
\* next_index_by_dir of cfg; scanned is what the directory scan has visited
find_next_subfolder(base_dir, prefix, next_map, scanned) ==
    LET key == resolve(base_dir)
        idx == NextIdx(StartIdx(next_map, key), MaxFound(prefix, scanned))
    IN  [ key      |-> key,
          prefix   |-> prefix,
          idx      |-> idx,
          name     |-> prefix \o IntToStr(idx),
          next_map |-> StoreNext(next_map, key, idx) ]

\* str(base_dir / name)
PathOf(key, name) == key \o <<"/">> \o name

(* ------------------------------- Config ------------------------------- *)
DvgrabName == <<"dvgrab">>
DvgrabBin == <<"/", "usr", "/", "bin", "/", "dvgrab">>

\* What the host offers: shutil.which(name) and Path(p).exists().  dvgrab is
\* installed (found on PATH) or it is not.
Envs == {"installed", "missing"}

\* shutil.which(name) on the host, None when nothing is found
Which(name, host) ==
    IF host = "installed" /\ name \in {DvgrabName, DvgrabBin} THEN DvgrabBin ELSE NoneStr

\* Path(p).exists() on the host
Exists(p, host) == host = "installed" /\ p = DvgrabBin

HasSlash(s) == \E i \in 1..Len(s) : s[i] = "/"

\* which_dvgrab(path_pref)
which_dvgrab(path_pref, host) ==
    IF path_pref # <<>> /\ (Exists(path_pref, host) \/ HasSlash(path_pref))
    THEN path_pref
    ELSE LET found == Which(IF path_pref # <<>> THEN path_pref ELSE DvgrabName, host)
         IN  IF found # NoneStr THEN found
             ELSE IF path_pref # <<>> THEN path_pref ELSE DvgrabName

\* s.strip()
RECURSIVE lstrip(_)
lstrip(s) ==
    IF Len(s) > 0 /\ s[1] \in {" ", "\n", "\r", "\t"} THEN lstrip(Tail(s)) ELSE s
RECURSIVE strip(_)
strip(s) ==
    IF Len(s) > 0 /\ s[Len(s)] \in {" ", "\n", "\r", "\t"}
    THEN strip(SubSeq(s, 1, Len(s) - 1)) ELSE lstrip(s)

\* _as_int(s, default): int(str(s).strip()), default when int() raises.
\* int() takes an optional sign followed by digits.
as_int(s, default) ==
    LET t == strip(s)
        signed == Len(t) > 0 /\ t[1] \in {"-", "+"}
        digits == IF signed THEN Tail(t) ELSE t
    IN  IF ~AllDigits(digits) THEN default
        ELSE IF signed /\ t[1] = "-" THEN 0 - ParseInt(digits)
        ELSE ParseInt(digits)

\* the labels of the format combobox and fmt_map of _gather_values
FormatLabels ==
    { "dv2 (AVI Type 2)", "dv1 (AVI Type 1)", "raw (.dv)", "qt (QuickTime)",
      "mov (QuickTime)", "avi", "mpeg2 (HDV .m2t)" }
fmt_map(label) ==
    IF label = "dv2 (AVI Type 2)" THEN "dv2"
    ELSE IF label = "dv1 (AVI Type 1)" THEN "dv1"
    ELSE IF label = "raw (.dv)" THEN "raw"
    ELSE IF label = "qt (QuickTime)" THEN "qt"
    ELSE IF label = "mov (QuickTime)" THEN "mov"
    ELSE IF label = "avi" THEN "avi"
    ELSE IF label = "mpeg2 (HDV .m2t)" THEN "mpeg2"
    ELSE "dv2"

\* the widgets after _load_from_config without a configuration file: the
\* defaults of load_config, numbers as the strings the entries hold
DefaultForm ==
    [ output_dir        |-> <<"/v">>,
      subfolder_prefix  |-> Tape,
      filename_scheme   |-> "timestamp",
      format            |-> "dv2 (AVI Type 2)",
      showstatus        |-> TRUE,
      autosplit         |-> FALSE,
      autosplit_seconds |-> <<"0">>,
      size_mb           |-> <<"0">>,
      csize_mb          |-> <<"0">>,
      cmincutsize_mb    |-> <<"0">>,
      rewind            |-> FALSE,
      noavc             |-> FALSE,
      recordonly        |-> FALSE,
      opendml           |-> TRUE,
      frames_per_file   |-> <<"0">>,
      every_nth         |-> <<"1">>,
      card              |-> <<>>,
      channel           |-> <<>>,
      guid              |-> <<>>,
      duration          |-> <<>>,
      use_v4l2          |-> FALSE,
      v4l2_input        |-> <<"/dev/video0">>,
      dvgrab_path       |-> DvgrabName ]

\* _gather_values: the configuration values read from the widgets f
gather_values(f) ==
    [ output_dir        |-> strip(f.output_dir),
      subfolder_prefix  |-> IF strip(f.subfolder_prefix) # <<>>
                            THEN strip(f.subfolder_prefix) ELSE Tape,
      filename_scheme   |-> f.filename_scheme,
      format            |-> fmt_map(f.format),
      showstatus        |-> f.showstatus,
      autosplit         |-> f.autosplit,
      autosplit_seconds |-> as_int(f.autosplit_seconds, 0),
      size_mb           |-> as_int(f.size_mb, 0),
      csize_mb          |-> as_int(f.csize_mb, 0),
      cmincutsize_mb    |-> as_int(f.cmincutsize_mb, 0),
      rewind            |-> f.rewind,
      noavc             |-> f.noavc,
      recordonly        |-> f.recordonly,
      opendml           |-> f.opendml,
      frames_per_file   |-> as_int(f.frames_per_file, 0),
      every_nth         |-> as_int(f.every_nth, 1),
      card              |-> strip(f.card),
      channel           |-> strip(f.channel),
      guid              |-> strip(f.guid),
      duration          |-> strip(f.duration),
      use_v4l2          |-> f.use_v4l2,
      v4l2_input        |-> strip(f.v4l2_input),
      dvgrab_path       |-> IF strip(f.dvgrab_path) # <<>>
                            THEN strip(f.dvgrab_path) ELSE DvgrabName ]

(* -------------------------- Command Builder --------------------------- *)
Formats == {"dv2", "dv1", "raw", "qt", "mov", "avi", "mpeg2"}

\* size_mb = int(values.get("size_mb") or 0); if size_mb >= 0: -size N
SizeTokens_positive_only(size_mb) ==
    IF size_mb > 0 THEN <<<<"-size">>, IntToStr(size_mb)>> ELSE <<>>
SizeTokens(size_mb) ==
    IF size_mb >= 0 THEN <<<<"-size">>, IntToStr(size_mb)>> ELSE <<>>

\* if values.get("autosplit"): -autosplit=SECONDS or -autosplit
AutosplitTokens_separate(autosplit, secs) ==
    IF autosplit
    THEN IF secs > 0 THEN <<<<"-autosplit">>, <<"-autosplit=">> \o IntToStr(secs)>>
         ELSE <<<<"-autosplit">>>>
    ELSE <<>>
AutosplitTokens(autosplit, secs) ==
    IF autosplit
    THEN IF secs > 0 THEN <<<<"-autosplit=">> \o IntToStr(secs)>>
         ELSE <<<<"-autosplit">>>>
    ELSE <<>>

\* x = str(values.get(...) or "").strip(); if x.isdigit(): option, x
DigitTokens_unchecked(option, field) ==
    IF strip(field) # <<>> THEN <<<<option>>, strip(field)>> ELSE <<>>
DigitTokens(option, field) ==
    IF AllDigits(strip(field)) THEN <<<<option>>, strip(field)>> ELSE <<>>

\* base = (capture_dir / "clip-").as_posix()
BaseToken_dir_only(capture_dir) == capture_dir
BaseToken(capture_dir) == capture_dir \o <<"/", "clip-">>

\* build_dvgrab_cmd(values, capture_dir): a list of tokens
build_dvgrab_cmd(values, capture_dir, host) ==
    LET fmt == values.format
        scheme == values.filename_scheme
    IN  <<which_dvgrab(values.dvgrab_path, host)>>
        \o (IF fmt \in Formats THEN <<<<"-format">>, <<fmt>>>> ELSE <<>>)
        \o (IF scheme = "timestamp" THEN <<<<"-timestamp">>>>
            ELSE IF scheme = "timecode" THEN <<<<"-timecode">>>>
            ELSE IF scheme = "timesys" THEN <<<<"-timesys">>>>
            ELSE <<>>)
        \o SizeTokens(values.size_mb)
        \o (IF values.frames_per_file > 0
            THEN <<<<"-frames">>, IntToStr(values.frames_per_file)>> ELSE <<>>)
        \o AutosplitTokens(values.autosplit, values.autosplit_seconds)
        \o (IF values.csize_mb > 0
            THEN <<<<"-csize">>, IntToStr(values.csize_mb)>> ELSE <<>>)
        \o (IF values.cmincutsize_mb > 0
            THEN <<<<"-cmincutsize">>, IntToStr(values.cmincutsize_mb)>> ELSE <<>>)
        \o (IF values.showstatus THEN <<<<"-showstatus">>>> ELSE <<>>)
        \o (IF values.rewind THEN <<<<"-rewind">>>> ELSE <<>>)
        \o (IF values.noavc THEN <<<<"-noavc">>>> ELSE <<>>)
        \o (IF values.recordonly THEN <<<<"-recordonly">>>> ELSE <<>>)
        \o (IF values.opendml /\ fmt = "dv2" THEN <<<<"-opendml">>>> ELSE <<>>)
        \o DigitTokens("-card", values.card)
        \o DigitTokens("-channel", values.channel)
        \o (IF strip(values.guid) # <<>>
            THEN <<<<"-guid">>, strip(values.guid)>> ELSE <<>>)
        \o (IF values.use_v4l2
            THEN <<<<"-v4l2">>>>
                 \o (IF strip(values.v4l2_input) # <<>>
                     THEN <<<<"-input">>, strip(values.v4l2_input)>> ELSE <<>>)
            ELSE <<>>)
        \o (IF strip(values.duration) # <<>>
            THEN <<<<"-duration">>, strip(values.duration)>> ELSE <<>>)
        \o (IF values.every_nth > 1
            THEN <<<<"-every">>, IntToStr(values.every_nth)>> ELSE <<>>)
        \o <<BaseToken(capture_dir)>>

\* " ".join(shlex.quote(x) for x in cmd), for tokens that need no quoting
RECURSIVE JoinCmd(_)
JoinCmd(cmd) ==
    IF Len(cmd) = 0 THEN <<>>
    ELSE IF Len(cmd) = 1 THEN cmd[1]
    ELSE cmd[1] \o <<" ">> \o JoinCmd(Tail(cmd))

(* ------------------------------ log text ------------------------------ *)
Whitespace == {" ", "\n", "\r", "\t"}

\* s.rstrip()
RECURSIVE rstrip(_)
rstrip(s) ==
    IF Len(s) > 0 /\ s[Len(s)] \in Whitespace
    THEN rstrip(SubSeq(s, 1, Len(s) - 1)) ELSE s

\* s.strip() is not empty
HasText(s) == \E i \in 1..Len(s) : s[i] \notin Whitespace

\* s.split(sep): the list of the pieces of s between occurrences of sep
RECURSIVE Split(_, _)
Split(s, sep) ==
    IF \A i \in 1..Len(s) : s[i] # sep THEN <<s>>
    ELSE LET i == CHOOSE j \in 1..Len(s) :
                     s[j] = sep /\ \A k \in 1..(j - 1) : s[k] # sep
         IN  <<SubSeq(s, 1, i - 1)>> \o Split(SubSeq(s, i + 1, Len(s)), sep)

\* str(n) for any integer
SignedStr(n) == IF n < 0 THEN <<"-">> \o IntToStr(0 - n) ELSE IntToStr(n)

ExitMarker == <<"[exit]">>

\* f"dvgrab exited with code {ret}"
ExitText(ret) == <<"dvgrab exited with code ">> \o SignedStr(ret)

\* An entry of log_q: the tuple (text, tag) of the program.  src is history:
\* <<pid, stream, n>> for the n-th entry a task of session pid put there
\* (stream "out", "err", or "wait" for the wait task), <<>> otherwise.
QEntry(text, tag, src) == [text |-> text, tag |-> tag, src |-> src]

\* The lines that self.log.insert("end", f"[{ts}] {text}\n", tag) adds to the
\* Text widget: one per "\n" of the inserted string
InsertedLines(text, tag, src) ==
    LET parts == Split(<<"[ts] ">> \o text, "\n")
    IN  [i \in 1..Len(parts) |-> [text |-> parts[i], tag |-> tag, src |-> src]]

\* int(self.log.index('end-1c').split('.')[0]) > LOG_LINES_MAX: with n lines
\* in the widget, the index end-1c is on line n + 1
NeedsTrim_never(n) == FALSE
NeedsTrim(n) == n + 1 > LOG_LINES_MAX

\* _log(text, is_err): insert, then delete the first line when over the limit
AppLog(lines, text, is_err, src) ==
    LET new == lines \o InsertedLines(text, IF is_err THEN "err" ELSE None, src)
    IN  IF NeedsTrim(Len(new)) THEN Tail(new) ELSE new

(* --------------------------- stream reading --------------------------- *)
\* what an external process may write to a stream in one go
Chunks == { <<"a", "\n">>, <<"b", "\r", "c", "\r">>, <<"[exit]", "\n">> }

ExitCodes == {0, -2}

\* first position of a line terminator in buf, 0 when there is none
FirstBreak(buf) ==
    IF \A i \in 1..Len(buf) : buf[i] \notin {"\n", "\r"} THEN 0
    ELSE CHOOSE i \in 1..Len(buf) :
             /\ buf[i] \in {"\n", "\r"}
             /\ \A k \in 1..(i - 1) : buf[k] \notin {"\n", "\r"}

\* stream.readline() on a text stream opened by Popen(text=True): universal
\* newlines, so "\n", "\r" and "\r\n" all end a line and are returned as
\* "\n".  buf is what the pipe holds, eof whether the write end is closed.
\* Gives [kind |-> "line", line, rest], [kind |-> "eof"] (readline returned
\* "") or [kind |-> "block"] (the call does not return yet: no complete line,
\* or a "\r" at the end that may still be followed by "\n").
readline(buf, eof) ==
    LET i == FirstBreak(buf)
    IN  IF i = 0
        THEN IF ~eof THEN [kind |-> "block"]
             ELSE IF Len(buf) = 0 THEN [kind |-> "eof"]
             ELSE [kind |-> "line", line |-> buf, rest |-> <<>>]
        ELSE IF buf[i] = "\n"
        THEN [ kind |-> "line", line |-> SubSeq(buf, 1, i - 1) \o <<"\n">>,
               rest |-> SubSeq(buf, i + 1, Len(buf)) ]
        ELSE IF i = Len(buf) /\ ~eof THEN [kind |-> "block"]
        ELSE [ kind |-> "line", line |-> SubSeq(buf, 1, i - 1) \o <<"\n">>,
               rest |-> IF i < Len(buf) /\ buf[i + 1] = "\n"
                        THEN SubSeq(buf, i + 2, Len(buf))
                        ELSE SubSeq(buf, i + 1, Len(buf)) ]

\* the texts one iteration of the loop of _read_stream puts in log_q
LineTexts_unstripped(line) == <<line>>
LineTexts(line) ==
    IF \E i \in 1..Len(line) : line[i] = "\r"
    THEN LET parts == Split(line, "\r")
             keep == SelectSeq(parts, HasText)
         IN  [i \in 1..Len(keep) |-> rstrip(keep[i])]
    ELSE <<rstrip(line)>>

(* -------------------------------- state ------------------------------- *)
VARIABLES
    fs,                 \* children of each base directory on disk
    saved_next,         \* next_index_by_dir in CONFIG_FILE (save_config)
    next_index_by_dir,  \* self.cfg["next_index_by_dir"]
    last_folder,        \* self.last_folder
    clipboard,          \* the clipboard of the Tk root
    proc,               \* self.proc: None or the pid of a session
    stop_requested,     \* self.stop_requested
    start_btn,          \* state of self.start_btn
    stop_btn,           \* state of self.stop_btn
    status_var,         \* self.status_var
    log_q,              \* self.log_q
    log,                \* lines of the Text widget self.log
    sessions,           \* per spawned process: the process and its tasks
    after_q,            \* _on_capture_finished callbacks scheduled by after()
    main_pc,            \* where the main thread stands inside stop_capture
    stop_calls,         \* the OS calls the current or last stop_capture made
    event,              \* the last handler call and what it reported
    env,                \* what the host offers: is dvgrab installed
    form,               \* the values of the widgets of the settings form
    built,              \* history: the last call of build_dvgrab_cmd
    budget,             \* what the run may still do (see Profiles)
    allocated           \* history: what find_next_subfolder has returned

vars == << fs, saved_next, next_index_by_dir, last_folder, clipboard, proc,
           stop_requested, start_btn, stop_btn, status_var, log_q, log,
           sessions, after_q, main_pc, stop_calls, event, env, form, built, budget, allocated >>

Streams == {"out", "err"}

\* the tag _pump_process gives the reader of a stream
StreamTag(st) == IF st = "err" THEN "err" ELSE None

Pids == 1..Len(sessions)

\* queue.Queue: put at the tail, get from the head
QPut_front(q, entries) == entries \o q
QPut(q, entries) == q \o entries

\* an entry of allocated: a call of find_next_subfolder, with the output
\* directory field it was made for and what it returned
Returned(output_dir, a) ==
    [ dir |-> output_dir, key |-> a.key, prefix |-> a.prefix, idx |-> a.idx,
      name |-> a.name ]

\* the widgets, with what the user has typed in the output directory and
\* subfolder prefix entries
FormWith(output_dir, prefix_field) ==
    [form EXCEPT !.output_dir = output_dir, !.subfolder_prefix = prefix_field]

\* no call of build_dvgrab_cmd yet
NoBuilt == [called |-> FALSE]

\* what a handler call reports to the user (a message box, or nothing more
\* than its return)
Report(op, res) == [op |-> op, res |-> res]

\* the state after App.__init__, but for the disk and the configuration file
InitApp ==
    /\ last_folder = NoneStr
    /\ clipboard = NoneStr
    /\ proc = NoProc
    /\ stop_requested = FALSE
    /\ start_btn = "normal"
    /\ stop_btn = "disabled"
    /\ status_var = "Idle."
    /\ log_q = <<>>
    /\ log = <<>>
    /\ sessions = <<>>
    /\ after_q = 0
    /\ main_pc = "idle"
    /\ stop_calls = <<>>
    /\ event = [op |-> "init", res |-> "none"]
    /\ env \in Envs
    /\ allocated = <<>>

\* The runs of the model.  A run has a budget: how many allocations,
\* copy_command calls, spawns, chunks of output, stop_capture calls on a
\* process, save_settings calls and handler calls that return at once it may
\* contain, and whether the user edits the output directory and prefix
\* fields and starts on a disk and a configuration file with contents (rich).
\* The budget only ever disables an action; it changes nothing an action
\* does.
Profiles ==
    { \* the allocator
      [ allocs |-> MaxAllocs, copies |-> MaxAllocs, spawns |-> 0, writes |-> 0,
        stops |-> 0, saves |-> MaxSaves, refused |-> 1, rich |-> TRUE ],
      \* the streams of one session
      [ allocs |-> 1, copies |-> 0, spawns |-> 1, writes |-> MaxWrites,
        stops |-> 0, saves |-> 0, refused |-> 0, rich |-> FALSE ],
      \* stopping a session
      [ allocs |-> 1, copies |-> 0, spawns |-> 1, writes |-> 0,
        stops |-> MaxStops, saves |-> 0, refused |-> MaxRefused, rich |-> FALSE ],
      \* one session after the other
      [ allocs |-> MaxSessions, copies |-> 0, spawns |-> MaxSessions, writes |-> 0,
        stops |-> 0, saves |-> 0, refused |-> 0, rich |-> FALSE ],
      \* a session on a disk and a configuration file with contents
      [ allocs |-> 1, copies |-> 0, spawns |-> 1, writes |-> 0,
        stops |-> 0, saves |-> MaxSaves, refused |-> 0, rich |-> TRUE ],
      \* filling the log
      [ allocs |-> MaxCopies, copies |-> MaxCopies, spawns |-> 0, writes |-> 0,
        stops |-> 0, saves |-> MaxSaves, refused |-> 0, rich |-> FALSE ] }

\* the values the fields take in a run
FieldDirs == IF budget.rich THEN OutputDirs ELSE {<<"/v">>}
FieldPrefixes == IF budget.rich THEN PrefixFields ELSE {<<>>}

Init ==
    /\ budget \in Profiles
    /\ \E c \in InitialChildren :
           /\ ~budget.rich => c = {}
           /\ fs = [k \in Keys |-> IF k = <<"/v">> THEN c ELSE {}]
    /\ \E m \in InitialNextMaps :
           /\ ~budget.rich => m = <<>>
           /\ saved_next = m
           /\ next_index_by_dir = m
    /\ form = DefaultForm
    /\ built = NoBuilt
    /\ InitApp

(* ------------------------------ save_config --------------------------- *)
\* json.dump(cfg, f) into the temporary file, os.replace onto CONFIG_FILE:
\* what CONFIG_FILE holds of next_index_by_dir once the call has returned
save_config_empty(cfg_next) == <<>>
save_config(cfg_next) == cfg_next

(* ----------------------------- start_capture -------------------------- *)
\* if self.proc is not None
AlreadyRunning_never == FALSE
AlreadyRunning == proc # NoProc

\* not shutil.which(dv_path) and not Path(dv_path).exists()
DvgrabNotFound(dv_path, host) ==
    Which(dv_path, host) = NoneStr /\ ~Exists(dv_path, host)

\* "if not base_dir" on base_dir = Path(...).expanduser(): a Path object has
\* no __bool__ or __len__, so it is true whatever the path, Path("") included
NoBaseDir(output_dir) == FALSE

\* subprocess.Popen(cmd, ..., preexec_fn=os.setsid) returned: the new process
\* with its two pipes, and the Thread(target=self._pump_process) started on
\* it.  The first thing that thread does is to start the two readers, which
\* no other task can observe before they act: the wait task stands at
\* self.proc.wait() and the readers are running from the start.
NewSession(dir, cmd) ==
    [ pstate |-> "running",
      ret    |-> <<>>,
      buf    |-> [st \in Streams |-> <<>>],
      wrote  |-> [st \in Streams |-> <<>>],
      pump   |-> "wait",
      rd     |-> [st \in Streams |-> "run"],
      n      |-> [st \in Streams |-> 0],
      dir    |-> dir,
      cmd    |-> cmd ]

\* the Popen call of start_capture raises instead of returning a process
PopenRaises(popen_ok) == ~popen_ok

\* except Exception: self.proc = None; showerror(...); return.  The handler
\* goes on to the buttons and the wait task only when Popen has not raised.
ReturnsOnFailure_falls_through(popen_ok) == FALSE
ReturnsOnFailure(popen_ok) == PopenRaises(popen_ok)

start_capture(output_dir, prefix_field, scanned, popen_ok) ==
    /\ main_pc = "idle"
    /\ LET vals == gather_values(FormWith(output_dir, prefix_field))
           dv_path == which_dvgrab(vals.dvgrab_path, env)
           a == find_next_subfolder(vals.output_dir, vals.subfolder_prefix,
                                    next_index_by_dir, scanned)
           subdir == PathOf(a.key, a.name)
           cmd == build_dvgrab_cmd(vals, subdir, env)
           log1 == AppLog(log, <<"Starting capture in: ">> \o subdir, FALSE, <<>>)
           log2 == AppLog(log1, <<"Command: ">> \o JoinCmd(cmd), FALSE, <<>>)
       IN  IF AlreadyRunning
           THEN /\ event' = Report("start_capture", "already_running")
                /\ budget.refused > 0
                /\ budget' = [budget EXCEPT !.refused = @ - 1]
                /\ UNCHANGED << fs, saved_next, next_index_by_dir, last_folder,
                                clipboard, proc, stop_requested, start_btn,
                                stop_btn, status_var, log_q, log, sessions,
                                after_q, main_pc, stop_calls, env, form, built, allocated >>
           ELSE IF DvgrabNotFound(dv_path, env)
           THEN /\ event' = Report("start_capture", "dvgrab_not_found")
                /\ budget.refused > 0
                /\ budget' = [budget EXCEPT !.refused = @ - 1]
                /\ UNCHANGED << fs, saved_next, next_index_by_dir, last_folder,
                                clipboard, proc, stop_requested, start_btn,
                                stop_btn, status_var, log_q, log, sessions,
                                after_q, main_pc, stop_calls, env, form, built, allocated >>
           ELSE IF NoBaseDir(vals.output_dir)
           THEN /\ event' = Report("start_capture", "choose_output")
                /\ budget.refused > 0
                /\ budget' = [budget EXCEPT !.refused = @ - 1]
                /\ UNCHANGED << fs, saved_next, next_index_by_dir, last_folder,
                                clipboard, proc, stop_requested, start_btn,
                                stop_btn, status_var, log_q, log, sessions,
                                after_q, main_pc, stop_calls, env, form, built, allocated >>
           ELSE /\ budget.allocs > 0
                /\ ~PopenRaises(popen_ok) => budget.spawns > 0
                /\ budget' = [budget EXCEPT
                                 !.allocs = @ - 1,
                                 !.spawns = IF PopenRaises(popen_ok) \/
                                               File(a.name) \in fs[a.key]
                                            THEN @ ELSE @ - 1]
                /\ next_index_by_dir' = a.next_map
                /\ allocated' = Append(allocated, Returned(output_dir, a))
                /\ IF File(a.name) \in fs[a.key]
                   THEN \* subdir.mkdir(parents=True, exist_ok=True) raises
                        \* FileExistsError, which leaves the handler
                        /\ event' = Report("start_capture", "mkdir_raised")
                        /\ UNCHANGED << fs, saved_next, last_folder, clipboard,
                                        proc, stop_requested, start_btn, stop_btn,
                                        status_var, log_q, log, sessions, after_q,
                                        main_pc, stop_calls, env, form, built >>
                   ELSE /\ fs' = [fs EXCEPT ![a.key] = @ \cup {Dir(a.name)}]
                        /\ last_folder' = subdir
                        /\ saved_next' = save_config(a.next_map)
                        /\ log' = log2
                        /\ stop_requested' = FALSE
                        /\ IF PopenRaises(popen_ok)
                           THEN /\ proc' = NoProc
                                /\ event' = Report("start_capture", "start_failed")
                           ELSE /\ proc' = Len(sessions) + 1
                                /\ event' = Report("start_capture", "started")
                        /\ IF ReturnsOnFailure(popen_ok)
                           THEN UNCHANGED << start_btn, stop_btn, status_var,
                                             sessions >>
                           ELSE /\ sessions' = Append(sessions, NewSession(subdir, cmd))
                                /\ start_btn' = "disabled"
                                /\ stop_btn' = "normal"
                                /\ status_var' = "Capturing"
                        /\ UNCHANGED << clipboard, log_q, after_q, main_pc,
                                        stop_calls, env, form, built >>

(* ------------------------------ copy_command -------------------------- *)
copy_command(output_dir, prefix_field, scanned) ==
    /\ main_pc = "idle"
    /\ budget.allocs > 0
    /\ budget.copies > 0
    /\ budget' = [budget EXCEPT !.allocs = @ - 1, !.copies = @ - 1]
    /\ LET vals == gather_values(FormWith(output_dir, prefix_field))
           a == find_next_subfolder(vals.output_dir, vals.subfolder_prefix,
                                    next_index_by_dir, scanned)
           subdir == PathOf(a.key, a.name)
           cmd_str == JoinCmd(build_dvgrab_cmd(vals, subdir, env))
       IN  /\ next_index_by_dir' = a.next_map
           /\ allocated' = Append(allocated, Returned(output_dir, a))
           /\ clipboard' = cmd_str
           /\ log' = AppLog(log, <<"Copied command:", "\n">> \o cmd_str, FALSE, <<>>)
           /\ event' = Report("copy_command", "copied")
    /\ UNCHANGED << fs, saved_next, last_folder, proc, stop_requested, start_btn,
                    stop_btn, status_var, log_q, sessions, after_q, main_pc,
                    stop_calls, env, form, built >>

(* ------------------------------ save_settings ------------------------- *)
\* self.cfg.update(vals); save_config(self.cfg); self._log("Settings saved.")
save_settings ==
    /\ main_pc = "idle"
    /\ budget.saves > 0
    /\ budget' = [budget EXCEPT !.saves = @ - 1]
    /\ saved_next' = save_config(next_index_by_dir)
    /\ log' = AppLog(log, <<"Settings saved.">>, FALSE, <<>>)
    /\ event' = Report("save_settings", "saved")
    /\ UNCHANGED << fs, next_index_by_dir, last_folder, clipboard, proc,
                    stop_requested, start_btn, stop_btn, status_var, log_q,
                    sessions, after_q, main_pc, stop_calls, env, form, built, allocated >>

(* ------------------------------ stop_capture -------------------------- *)
\* if self.proc is None: return
NoProcess_never == FALSE
NoProcess == proc = NoProc

OtherThanStop == << fs, saved_next, next_index_by_dir, last_folder, clipboard,
                    proc, start_btn, stop_btn, status_var, log_q, after_q,
                    env, form, built, allocated >>

\* the entry of the handler: the test of self.proc and stop_requested = True
stop_capture ==
    /\ main_pc = "idle"
    /\ IF NoProcess
       THEN /\ event' = Report("stop_capture", "no_process")
            /\ budget.refused > 0
            /\ budget' = [budget EXCEPT !.refused = @ - 1]
            /\ UNCHANGED << stop_requested, log, sessions, main_pc, stop_calls >>
       ELSE /\ budget.stops > 0
            /\ budget' = [budget EXCEPT !.stops = @ - 1]
            /\ stop_requested' = TRUE
            /\ stop_calls' = <<>>
            /\ main_pc' = "stop_sig"
            /\ event' = Report("stop_capture", "stopping")
            /\ UNCHANGED << log, sessions >>
    /\ UNCHANGED OtherThanStop

\* the signal the handler sends to the process group
StopSignal_kill == "SIGKILL"
StopSignal == "SIGINT"

\* the except branch is taken only when the try block raised
FallsBack_always(delivered) == TRUE
FallsBack(delivered) == ~delivered

\* pgid = os.getpgid(self.proc.pid); os.killpg(pgid, signal.SIGINT).
\* self.proc is read again: the wait task may have set it to None, and then
\* the attribute access raises.  On a process that wait() has already reaped
\* os.getpgid raises, unless the pid is in use again, and then the signal
\* goes to the group of whatever process has it.  The kernel may also refuse
\* the signal.  Every exception leads to the except branch.
stop_sig(delivered) ==
    /\ main_pc = "stop_sig"
    /\ IF proc = NoProc
       THEN /\ ~delivered
            /\ UNCHANGED stop_calls
       ELSE stop_calls' = Append(stop_calls,
                [ call   |-> "killpg",
                  sig    |-> StopSignal,
                  pid    |-> proc,
                  target |-> IF sessions[proc].pstate = "reaped"
                             THEN "foreign" ELSE "group",
                  ok     |-> delivered ])
    /\ IF FallsBack(delivered)
       THEN /\ main_pc' = "stop_term"
            /\ UNCHANGED log
       ELSE /\ main_pc' = "idle"
            /\ log' = AppLog(log, <<"Stop signal sent.">>, FALSE, <<>>)
    /\ UNCHANGED << stop_requested, sessions, event, budget >>
    /\ UNCHANGED OtherThanStop

\* self.proc.terminate() in the except branch, then the log line.
\* Popen.terminate polls first: a process that has exited is reaped and gets
\* no signal, a running one gets SIGTERM; any exception is swallowed.
stop_term ==
    /\ main_pc = "stop_term"
    /\ IF proc = NoProc
       THEN UNCHANGED << stop_calls, sessions >>
       ELSE LET running == sessions[proc].pstate = "running"
            IN  /\ stop_calls' = Append(stop_calls,
                       [ call   |-> "terminate",
                         sig    |-> IF running THEN "SIGTERM" ELSE None,
                         pid    |-> proc,
                         target |-> "process",
                         ok     |-> running ])
                /\ sessions' = IF sessions[proc].pstate = "exited"
                               THEN [sessions EXCEPT ![proc].pstate = "reaped"]
                               ELSE sessions
    /\ main_pc' = "idle"
    /\ log' = AppLog(log, <<"Stop signal sent.">>, FALSE, <<>>)
    /\ UNCHANGED << stop_requested, event, budget >>
    /\ UNCHANGED OtherThanStop

(* --------------------------- external process ------------------------- *)
\* the process writes a chunk to one of its streams (wrote is history: all
\* it has written to the stream)
ProcWrite(p, st, chunk) ==
    /\ sessions[p].pstate = "running"
    /\ budget.writes > 0
    /\ budget' = [budget EXCEPT !.writes = @ - 1]
    /\ sessions' = [sessions EXCEPT ![p].buf[st] = @ \o chunk,
                                    ![p].wrote[st] = @ \o chunk]
    /\ UNCHANGED << fs, saved_next, next_index_by_dir, last_folder, clipboard,
                    proc, stop_requested, start_btn, stop_btn, status_var,
                    log_q, log, after_q, main_pc, stop_calls, event, env, form, built,
                    allocated >>

\* the process ends with an exit code (negative when a signal killed it);
\* the write ends of its pipes are closed.  ret holds the code, <<>> before
ProcExit(p, code) ==
    /\ sessions[p].pstate = "running"
    /\ sessions' = [sessions EXCEPT ![p].pstate = "exited", ![p].ret = <<code>>]
    /\ UNCHANGED << fs, saved_next, next_index_by_dir, last_folder, clipboard,
                    proc, stop_requested, start_btn, stop_btn, status_var,
                    log_q, log, after_q, main_pc, stop_calls, event, env, form, built, budget,
                    allocated >>

(* ------------------------------ _pump_process ------------------------- *)
ThreadFrame == << fs, saved_next, next_index_by_dir, last_folder, clipboard,
                  stop_requested, start_btn, stop_btn, status_var, log,
                  main_pc, stop_calls, event, env, form, built, budget, allocated >>

\* ret = self.proc.wait() returns once the process has exited
pump_wait(p) ==
    /\ sessions[p].pump = "wait"
    /\ sessions[p].pstate \in {"exited", "reaped"}
    /\ sessions' = [sessions EXCEPT ![p].pump = "put_exit", ![p].pstate = "reaped"]
    /\ UNCHANGED << proc, log_q, after_q >>
    /\ UNCHANGED ThreadFrame

\* self.log_q.put(("[exit]", None))
pump_put_exit(p) ==
    /\ sessions[p].pump = "put_exit"
    /\ log_q' = QPut(log_q, <<QEntry(ExitMarker, None, <<p, "wait", 1>>)>>)
    /\ sessions' = [sessions EXCEPT ![p].pump = "put_code"]
    /\ UNCHANGED << proc, after_q >>
    /\ UNCHANGED ThreadFrame

\* "err" if ret else None
ExitTag_never(ret) == None
ExitTag(ret) == IF ret # 0 THEN "err" ELSE None

\* self.log_q.put((f"dvgrab exited with code {ret}", "err" if ret else None))
pump_put_code(p) ==
    /\ sessions[p].pump = "put_code"
    /\ log_q' = QPut(log_q, <<QEntry(ExitText(sessions[p].ret[1]),
                                     ExitTag(sessions[p].ret[1]), <<p, "wait", 2>>)>>)
    /\ sessions' = [sessions EXCEPT ![p].pump = "release"]
    /\ UNCHANGED << proc, after_q >>
    /\ UNCHANGED ThreadFrame

\* self.master.after(0, self._on_capture_finished): one more callback due
Scheduled_dropped(n) == n
Scheduled(n) == n + 1

\* finally: self.proc = None; self.master.after(0, self._on_capture_finished)
pump_release(p) ==
    /\ sessions[p].pump = "release"
    /\ proc' = NoProc
    /\ after_q' = Scheduled(after_q)
    /\ sessions' = [sessions EXCEPT ![p].pump = "done"]
    /\ UNCHANGED log_q
    /\ UNCHANGED ThreadFrame

\* The try block is left by an exception before wait() has returned:
\* t.start() raises for the first reader thread (started = {}) or for the
\* second (started = {"out"}), so the readers not in started never run, no
\* exit entry is put, and control goes to the finally block.
pump_raise(p, started) ==
    /\ sessions[p].pump = "wait"
    /\ \A st \in Streams \ started :
           /\ sessions[p].rd[st] = "run"
           /\ sessions[p].n[st] = 0
           /\ sessions[p].buf[st] = sessions[p].wrote[st]
    /\ sessions' = [sessions EXCEPT
                       ![p].pump = "release",
                       ![p].rd = [st \in Streams |->
                                    IF st \in started THEN @[st] ELSE "none"]]
    /\ UNCHANGED << proc, log_q, after_q >>
    /\ UNCHANGED ThreadFrame

(* ------------------------------ _read_stream -------------------------- *)
\* one iteration of "for line in iter(stream.readline, '')", or the end of
\* the loop and stream.close()
read_stream(p, st) ==
    /\ sessions[p].rd[st] = "run"
    /\ LET r == readline(sessions[p].buf[st], sessions[p].pstate # "running")
           texts == LineTexts(r.line)
           n0 == sessions[p].n[st]
       IN  /\ r.kind # "block"
           /\ IF r.kind = "eof"
              THEN /\ sessions' = [sessions EXCEPT ![p].rd[st] = "done"]
                   /\ UNCHANGED log_q
              ELSE /\ log_q' = QPut(log_q,
                          [i \in 1..Len(texts) |->
                              QEntry(texts[i], StreamTag(st), <<p, st, n0 + i>>)])
                   /\ sessions' = [sessions EXCEPT ![p].buf[st] = r.rest,
                                                   ![p].n[st] = n0 + Len(texts)]
    /\ UNCHANGED << proc, after_q >>
    /\ UNCHANGED ThreadFrame

(* ----------------------- callbacks of the main loop ------------------- *)
\* _on_capture_finished, run by the main loop once scheduled
on_capture_finished ==
    /\ main_pc = "idle"
    /\ after_q > 0
    /\ after_q' = after_q - 1
    /\ start_btn' = "normal"
    /\ stop_btn' = "disabled"
    /\ status_var' = "Idle."
    /\ UNCHANGED << fs, saved_next, next_index_by_dir, last_folder, clipboard,
                    proc, stop_requested, log_q, log, sessions, main_pc,
                    stop_calls, event, env, form, built, budget, allocated >>

\* if line == "[exit]": continue
IsMarker(text) == text = ExitMarker

\* the loop of _schedule_log_pump over what get_nowait() returns
RECURSIVE Deliver_lifo(_, _)
Deliver_lifo(lines, q) ==
    IF q = <<>> THEN lines
    ELSE LET e == q[Len(q)]
         IN  Deliver_lifo(IF IsMarker(e.text) THEN lines
                          ELSE AppLog(lines, e.text, e.tag = "err", e.src),
                          SubSeq(q, 1, Len(q) - 1))
RECURSIVE Deliver(_, _)
Deliver(lines, q) ==
    IF q = <<>> THEN lines
    ELSE LET e == Head(q)
         IN  Deliver(IF IsMarker(e.text) THEN lines
                     ELSE AppLog(lines, e.text, e.tag = "err", e.src),
                     Tail(q))

\* _schedule_log_pump: empty the queue into the log (then re-arm the timer)
schedule_log_pump ==
    /\ main_pc = "idle"
    /\ log_q # <<>>
    /\ log' = Deliver(log, log_q)
    /\ log_q' = <<>>
    /\ UNCHANGED << fs, saved_next, next_index_by_dir, last_folder, clipboard,
                    proc, stop_requested, start_btn, stop_btn, status_var,
                    sessions, after_q, main_pc, stop_calls, event, env, form, built, budget,
                    allocated >>

(* ---------------------------- specification --------------------------- *)
Next ==
    \/ \E d \in FieldDirs, pf \in FieldPrefixes, ok \in BOOLEAN :
           \E sc \in Scans(fs[resolve(d)]) : start_capture(d, pf, sc, ok)
    \/ \E d \in FieldDirs, pf \in FieldPrefixes :
           \E sc \in Scans(fs[resolve(d)]) : copy_command(d, pf, sc)
    \/ save_settings
    \/ stop_capture
    \/ \E ok \in BOOLEAN : stop_sig(ok)
    \/ stop_term
    \/ \E p \in Pids, st \in Streams, c \in Chunks : ProcWrite(p, st, c)
    \/ \E p \in Pids, code \in ExitCodes : ProcExit(p, code)
    \/ \E p \in Pids : pump_wait(p)
    \/ \E p \in Pids : pump_put_exit(p)
    \/ \E p \in Pids : pump_put_code(p)
    \/ \E p \in Pids : pump_release(p)
    \/ \E p \in Pids, started \in {{}, {"out"}} : pump_raise(p, started)
    \/ \E p \in Pids, st \in Streams : read_stream(p, st)
    \/ on_capture_finished
    \/ schedule_log_pump

Spec == Init /\ [][Next]_vars

(* ------------------------- the command builder alone ------------------ *)
\* what the entries of the form may hold
SizeFields == { <<"0">>, <<"7", "0", "0">>, <<"-", "1">>, <<>> }
SecondsFields == { <<"0">>, <<"1", "2">>, <<"-", "3">> }
CardFields == { <<>>, <<"a", "b", "c">>, <<"1">>, <<"1", "x">> }
ChannelFields == { <<"6", "3">>, <<"a", "b", "c">> }
GuidFields == { <<>>, <<"0", "x", "1">> }

\* the forms the builder is applied to: the defaults, with the entries above
\* and with the other options as they are by default or all changed
Forms ==
    { [ DefaultForm EXCEPT
          !.size_mb = sz, !.autosplit = au, !.autosplit_seconds = secs,
          !.card = ca, !.channel = ch, !.guid = gu,
          !.format = IF other THEN "mpeg2 (HDV .m2t)" ELSE @,
          !.filename_scheme = IF other THEN "none" ELSE @,
          !.showstatus = IF other THEN FALSE ELSE @,
          !.rewind = other, !.noavc = other, !.recordonly = other,
          !.use_v4l2 = other,
          !.frames_per_file = IF other THEN <<"2", "5">> ELSE @,
          !.csize_mb = IF other THEN <<"6", "5", "0">> ELSE @,
          !.cmincutsize_mb = IF other THEN <<"1", "0", "x">> ELSE @,
          !.every_nth = IF other THEN <<"2">> ELSE @,
          !.duration = IF other THEN <<"1", "h">> ELSE @ ] :
        sz \in SizeFields, au \in BOOLEAN, secs \in SecondsFields,
        ca \in CardFields, ch \in ChannelFields, gu \in GuidFields,
        other \in BOOLEAN }

\* the capture directories the builder is applied to
TargetDirs == { PathOf(<<"/v">>, Tape \o <<"1">>), PathOf(Cwd, Tape \o <<"2">>) }

InitArgs ==
    /\ budget = [ allocs |-> 0, copies |-> 0, spawns |-> 0, writes |-> 0,
                  stops |-> 0, saves |-> 0, refused |-> 0, rich |-> FALSE ]
    /\ fs = [k \in Keys |-> {}]
    /\ saved_next = <<>>
    /\ next_index_by_dir = <<>>
    /\ form \in Forms
    /\ built = NoBuilt
    /\ InitApp

\* a call cmd = build_dvgrab_cmd(vals, capture_dir=...) on the values
\* gathered from the form.  built keeps the call and the one before it.
build_cmd(capture_dir) ==
    /\ built' = [ called |-> TRUE,
                  values |-> gather_values(form),
                  dir    |-> capture_dir,
                  argv   |-> build_dvgrab_cmd(gather_values(form), capture_dir, env),
                  prev   |-> IF built.called
                             THEN <<[ values |-> built.values, dir |-> built.dir,
                                      argv |-> built.argv ]>>
                             ELSE <<>> ]
    /\ UNCHANGED << fs, saved_next, next_index_by_dir, last_folder, clipboard,
                    proc, stop_requested, start_btn, stop_btn, status_var,
                    log_q, log, sessions, after_q, main_pc, stop_calls, event,
                    env, form, budget, allocated >>

\* dvgrab is installed on the host, or removed from it
host_changes ==
    /\ env' = IF env = "installed" THEN "missing" ELSE "installed"
    /\ UNCHANGED << fs, saved_next, next_index_by_dir, last_folder, clipboard,
                    proc, stop_requested, start_btn, stop_btn, status_var,
                    log_q, log, sessions, after_q, main_pc, stop_calls, event,
                    form, built, budget, allocated >>

NextArgs ==
    \/ \E d \in TargetDirs : build_cmd(d)
    \/ host_changes

SpecArgs == InitArgs /\ [][NextArgs]_vars

(* ------------------------------ properties ---------------------------- *)
\* a step in which find_next_subfolder returned
Allocates == Len(allocated') = Len(allocated) + 1

\* a step that is a call of start_capture, of stop_capture
StartCall ==
    /\ event'.op = "start_capture"
    /\ budget'.allocs # budget.allocs \/ budget'.refused # budget.refused
StopCall ==
    /\ event'.op = "stop_capture"
    /\ budget'.stops # budget.stops \/ budget'.refused # budget.refused

\* the numbers N of the children of a directory whose name is prefix + N
ChildNumbers(prefix, children) ==
    { PatGroup(prefix, c.name) : c \in {d \in children : PatMatch(prefix, d.name)} }

Greatest(S) == IF S = {} THEN 0 ELSE CHOOSE n \in S : \A m \in S : m <= n

\* C1: the directory name a call of the allocator returns differs from the
\* name of every child the base directory had when the call began, and from
\* every name an earlier call returned for the same base directory.
C1_ReturnedNameIsFresh ==
    [][ Allocates =>
          LET r == allocated'[Len(allocated')]
          IN  /\ \A c \in fs[r.key] : c.name # r.name
              /\ \A i \in 1..Len(allocated) :
                     ~(allocated[i].key = r.key /\ allocated[i].name = r.name) ]_vars

\* C2: a preview allocation (copy_command) leaves the allocation state, the
\* map from base directory to next index, as it was.
C2_PreviewKeepsAllocationState ==
    [][ (Allocates /\ event'.op = "copy_command") =>
          next_index_by_dir' = next_index_by_dir ]_vars

\* C3: the index an allocation returns is the greater of the persisted next
\* index of the base directory (1 when there is none) and one more than the
\* greatest N among the existing children named prefix + N; the name returned
\* is prefix + idx, and the allocation state of the directory becomes idx + 1.
C3_IndexIsMaxOfCounterAndChildren ==
    [][ Allocates =>
          LET r == allocated'[Len(allocated')]
              persisted == IF r.key \in DOMAIN next_index_by_dir
                           THEN next_index_by_dir[r.key] ELSE 1
              existing == Greatest(ChildNumbers(r.prefix, fs[r.key]))
          IN  /\ r.idx = IF persisted >= existing + 1 THEN persisted
                         ELSE existing + 1
              /\ r.name = r.prefix \o IntToStr(r.idx)
              /\ next_index_by_dir'[r.key] = r.idx + 1 ]_vars

\* everything but what a handler call reports
Untouched == << fs, saved_next, next_index_by_dir, last_folder, clipboard, proc,
                stop_requested, start_btn, stop_btn, status_var, log_q, log,
                sessions, after_q, main_pc, stop_calls, env, form, built, allocated >>

\* the sessions whose wait task has not finished
Active == {p \in Pids : sessions[p].pump # "done"}

\* C4: a call of start_capture made while a process handle is present reports
\* "already running" and changes nothing else: no allocation, no directory, no
\* spawn, the running session untouched; and at most one session is active
\* at any time.
C4_StartWhileActiveRejected ==
    /\ [](Cardinality(Active) <= 1 /\ (Active # {} => proc \in Active))
    /\ [][ (StartCall /\ proc # NoProc) =>
             (event'.res = "already_running" /\ UNCHANGED Untouched) ]_vars

C4_Witness == event.res = "already_running" /\ proc # NoProc /\ proc \in Active

\* C5: start_capture with an empty output directory field makes no
\* allocation.
C5_EmptyBaseDirNotAllocated ==
    [][ (Allocates /\ event'.op = "start_capture") =>
          allocated'[Len(allocated')].dir # <<>> ]_vars

\* C6: when the process cannot be spawned (dvgrab is not found, or the spawn
\* raises) start_capture reports the failure, the process handle stays
\* absent, no task is started and nothing is queued or scheduled, and the
\* controls stay as they were; a start_capture call made while the handle is
\* absent, a later one included, is never refused as "already running".
C6_SpawnFailureLeavesIdle ==
    [][ (StartCall /\ proc = NoProc) =>
          /\ event'.res # "already_running"
          /\ env = "missing" => event'.res = "dvgrab_not_found"
          /\ event'.res = "dvgrab_not_found" => UNCHANGED Untouched
          /\ event'.res \in {"dvgrab_not_found", "start_failed"} =>
                /\ proc' = NoProc
                /\ sessions' = sessions
                /\ log_q' = log_q
                /\ after_q' = after_q
                /\ UNCHANGED << start_btn, stop_btn, status_var >> ]_vars

\* a spawn has failed, and a later start_capture has started a session
C6_Witness ==
    /\ event.res = "started"
    /\ Len(sessions) < Len(allocated)
    /\ proc = Len(sessions)

\* C7: stop_capture on a present process first sends SIGINT to the process
\* group; terminate() is called only after that call failed; SIGKILL is never
\* sent; and the handler always reaches its last statement, the log line.
C7_StopInterruptsThenTerminates ==
    /\ [](/\ Len(stop_calls) <= 2
          /\ \A i \in 1..Len(stop_calls) :
                /\ stop_calls[i].sig \in {"SIGINT", "SIGTERM", None}
                /\ stop_calls[i].call = "killpg" =>
                       i = 1 /\ stop_calls[i].sig = "SIGINT"
                /\ stop_calls[i].call = "terminate" =>
                       /\ i = 2
                       /\ stop_calls[1].call = "killpg"
                       /\ ~stop_calls[1].ok)
    /\ [][ (main_pc = "stop_sig" /\ main_pc' # "stop_sig" /\ proc # NoProc) =>
             /\ Len(stop_calls') = 1
             /\ stop_calls'[1].call = "killpg"
             /\ stop_calls'[1].sig = "SIGINT"
             /\ stop_calls'[1].pid = proc
             /\ sessions[proc].pstate # "reaped" =>
                    stop_calls'[1].target = "group" ]_vars
    /\ [][ (main_pc # "idle" /\ main_pc' = "idle") =>
             /\ Len(log') > 0
             /\ log'[Len(log')].text = <<"[ts] ", "Stop signal sent.">> ]_vars

\* the interrupt failed and terminate() signalled the process
C7_Witness ==
    /\ main_pc = "idle"
    /\ Len(stop_calls) = 2
    /\ stop_calls[2].sig = "SIGTERM"

\* C8: stop_capture with no process handle, before any start or after the
\* handle was released, changes nothing: no signal, no log line, no flag.
C8_StopWithoutProcessIsNoOp ==
    [][ (StopCall /\ proc = NoProc) =>
          (event'.res = "no_process" /\ UNCHANGED Untouched) ]_vars

\* stop_capture was called after the handle of a session had been released
C8_Witness ==
    /\ event = [op |-> "stop_capture", res |-> "no_process"]
    /\ sessions # <<>>
    /\ proc = NoProc

\* the entry with the exit code of session p
IsExitEntry(e, p) == e.src = <<p, "wait", 2>>

SrcOf(s) == [i \in 1..Len(s) |-> s[i].src]

\* two entries come from the same stream of the same process
SameStream(a, b) ==
    /\ Len(a) = 3 /\ Len(b) = 3
    /\ a[2] \in Streams
    /\ a[1] = b[1] /\ a[2] = b[2]

InReadOrder(srcs) ==
    \A i, j \in 1..Len(srcs) :
        (i < j /\ SameStream(srcs[i], srcs[j])) => srcs[i][3] < srcs[j][3]

\* C10: the lines read from one stream of a process stand in the log, and
\* in the queue behind it, in the order they were read from that stream.
C10_StreamOrderPreserved == InReadOrder(SrcOf(log) \o SrcOf(log_q))

\* two lines of one stream are in the log with a line of the other stream
\* between them
C10_Witness ==
    \E i, j, k \in 1..Len(log) :
        /\ i < j /\ j < k
        /\ SameStream(log[i].src, log[k].src)
        /\ Len(log[j].src) = 3 /\ log[j].src[2] \in Streams
        /\ log[j].src[2] # log[i].src[2]

\* The fragments of the data written to a stream: the pieces between line
\* terminators ("\r", "\n" or "\r\n"), and what follows the last terminator
\* when that is not empty.
RECURSIVE Fragments(_)
Fragments(data) ==
    IF data = <<>> THEN <<>>
    ELSE IF \A i \in 1..Len(data) : data[i] # "\r" /\ data[i] # "\n"
    THEN <<data>>
    ELSE LET i == CHOOSE j \in 1..Len(data) :
                     /\ data[j] = "\r" \/ data[j] = "\n"
                     /\ \A k \in 1..(j - 1) : data[k] # "\r" /\ data[k] # "\n"
             after == IF data[i] = "\r" /\ i < Len(data) /\ data[i + 1] = "\n"
                      THEN i + 2 ELSE i + 1
         IN  <<SubSeq(data, 1, i - 1)>> \o Fragments(SubSeq(data, after, Len(data)))

\* C11: stream data made of fragments ended by carriage returns is split at
\* the carriage returns and each fragment is its own log line, in order: the
\* k-th entry a reader puts in the queue is the k-th fragment of what the
\* process wrote to the stream, no entry of a reader holds a carriage return
\* or a newline, and a reader that has ended has put one entry per fragment.
\* The chunk "b\rc\r" (b, c standing for two status texts) gives the two
\* lines "b" and "c".
C11_CarriageReturnFragments ==
    \A p \in Pids : \A st \in Streams :
        LET frags == Fragments(sessions[p].wrote[st])
            FromReader(e) == Len(e.src) = 3 /\ e.src[1] = p /\ e.src[2] = st
        IN  /\ sessions[p].n[st] <= Len(frags)
            /\ sessions[p].rd[st] = "done" => sessions[p].n[st] = Len(frags)
            /\ \A i \in 1..Len(log_q) :
                   FromReader(log_q[i]) =>
                       /\ log_q[i].text = frags[log_q[i].src[3]]
                       /\ \A j \in 1..Len(log_q[i].text) :
                              log_q[i].text[j] \notin {"\r", "\n"}
            /\ \A i \in 1..Len(log) :
                   FromReader(log[i]) =>
                       /\ log[i].text = <<"[ts] ">> \o frags[log[i].src[3]]
                       /\ \A j \in 1..Len(log[i].text) :
                              log[i].text[j] \notin {"\r", "\n"}

\* the process wrote "b\rc\r" and nothing else to its standard output, and
\* the log holds the two lines
C11_Witness ==
    \E p \in Pids :
        /\ sessions[p].wrote["out"] = <<"b", "\r", "c", "\r">>
        /\ sessions[p].rd["out"] = "done"
        /\ sessions[p].n["out"] = 2
        /\ \E i \in 1..Len(log) :
               /\ i < Len(log)
               /\ log[i].src = <<p, "out", 1>> /\ log[i].text = <<"[ts] ", "b">>
               /\ log[i + 1].src = <<p, "out", 2>>
               /\ log[i + 1].text = <<"[ts] ", "c">>

\* C12: two calls of the allocator for the same base directory never return
\* the same index.  The calls are made by start_capture and copy_command,
\* which the main loop runs one at a time: an allocation and its update of
\* next_index_by_dir are one step, taken while no other handler is under
\* way, and nothing else changes next_index_by_dir.
C12_AllocationsAreSerial ==
    /\ [](\A i, j \in 1..Len(allocated) :
             (i < j /\ allocated[i].key = allocated[j].key) =>
                 allocated[i].idx < allocated[j].idx)
    /\ [][ (Allocates \/ next_index_by_dir' # next_index_by_dir) =>
             LET r == allocated'[Len(allocated')]
             IN  /\ Allocates
                 /\ main_pc = "idle" /\ main_pc' = "idle"
                 /\ DOMAIN next_index_by_dir' = DOMAIN next_index_by_dir \cup {r.key}
                 /\ next_index_by_dir'[r.key] = r.idx + 1
                 /\ \A k \in DOMAIN next_index_by_dir \ {r.key} :
                        next_index_by_dir'[k] = next_index_by_dir[k] ]_vars

\* copy_command and start_capture have both allocated in the same base
\* directory, with the same prefix
C12_Witness ==
    /\ Len(allocated) = 2
    /\ allocated[1].key = allocated[2].key
    /\ allocated[1].prefix = allocated[2].prefix
    /\ clipboard # NoneStr
    /\ event.op = "start_capture"

\* the positions of a token in an argument vector
Positions(argv, token) == {i \in 1..Len(argv) : argv[i] = token}

\* C13: the last element of the argument vector build_dvgrab_cmd returns is
\* the capture directory joined with the stem "clip-", whatever the
\* configuration, and that token stands nowhere else in the vector.
C13_OutputPathIsLast ==
    built.called =>
        Positions(built.argv, built.dir \o <<"/", "clip-">>) = {Len(built.argv)}

\* a vector with device, split and duration options before the output path
C13_Witness ==
    /\ built.called
    /\ built.dir = <<"/v", "/", "t", "a", "p", "e", "1">>
    /\ built.argv[Len(built.argv)] =
           <<"/v", "/", "t", "a", "p", "e", "1", "/", "clip-">>
    /\ Positions(built.argv, <<"-guid">>) # {}
    /\ Positions(built.argv, <<"-duration">>) # {}
    /\ Positions(built.argv, <<"-every">>) # {}

\* C14: whatever value _gather_values produces for the maximum file size,
\* the argument vector holds the option -size followed by that value, the
\* value 0 (unlimited) included.
C14_MaxFileSizeAlwaysPresent ==
    built.called =>
        \E i \in 1..(Len(built.argv) - 1) :
            /\ built.argv[i] = <<"-size">>
            /\ built.argv[i + 1] = SignedStr(built.values.size_mb)

\* the positions of the autosplit tokens of an argument vector, bare
\* ("-autosplit") and combined ("-autosplit=N")
BareAutosplit(argv) == Positions(argv, <<"-autosplit">>)
CombinedAutosplit(argv) ==
    {i \in 1..Len(argv) : Len(argv[i]) > 1 /\ argv[i][1] = "-autosplit="}

\* C15: the argument vector holds at most one autosplit token: the combined
\* token "-autosplit=N" when autosplit is on and N > 0, the bare token
\* "-autosplit" when autosplit is on and N = 0, and none when autosplit is
\* off, whatever N.
C15_OneAutosplitToken ==
    built.called =>
        LET bare == BareAutosplit(built.argv)
            comb == CombinedAutosplit(built.argv)
            secs == built.values.autosplit_seconds
        IN  /\ Cardinality(bare) + Cardinality(comb) <= 1
            /\ (built.values.autosplit /\ secs > 0) =>
                   /\ bare = {}
                   /\ \E i \in comb :
                          built.argv[i] = <<"-autosplit=">> \o IntToStr(secs)
            /\ (built.values.autosplit /\ secs = 0) =>
                   (comb = {} /\ Cardinality(bare) = 1)
            /\ ~built.values.autosplit => (bare = {} /\ comb = {})

\* autosplit is on with 12 and the vector holds "-autosplit=12"
C15_Witness ==
    /\ built.called
    /\ built.values.autosplit
    /\ built.values.autosplit_seconds = 12
    /\ Positions(built.argv, <<"-autosplit=", "1", "2">>) # {}

\* a field is not empty and holds decimal digits only
DigitsOnly(field) ==
    /\ field # <<>>
    /\ \A i \in 1..Len(field) :
           field[i] \in {"0", "1", "2", "3", "4", "5", "6", "7", "8", "9"}

\* option is in the argument vector once, followed by value
Carries(argv, option, value) ==
    /\ Cardinality(Positions(argv, <<option>>)) = 1
    /\ \A i \in Positions(argv, <<option>>) : i < Len(argv) /\ argv[i + 1] = value

\* neither option nor value is in the argument vector
Omits(argv, option, value) ==
    /\ Positions(argv, <<option>>) = {}
    /\ Positions(argv, value) = {}

C17_BuildArgsDependsOnInputsOnly ==
    (built.called /\ built.prev # <<>>) =>
        ((built.prev[1].values = built.values /\ built.prev[1].dir = built.dir)
            => built.prev[1].argv = built.argv)

\* C18: the process handle of a session is released only after the process
\* has exited and both readers of its streams have ended; once the wait task
\* has put the exit code entry of a session in the queue, no reader of that
\* session puts a line in the queue any more.
C18_ExitEntryIsLast ==
    /\ [](\A p \in Pids :
             sessions[p].pump = "done" =>
                 /\ sessions[p].pstate # "running"
                 /\ \A st \in Streams : sessions[p].rd[st] = "done")
    /\ [][ \A p \in Pids : \A st \in Streams :
             sessions[p].pump \in {"release", "done"} =>
                 sessions'[p].n[st] = sessions[p].n[st] ]_vars

(* ------------------------------ scheduling ---------------------------- *)
\* the steps of the wait thread of session p, of the reader thread of a
\* stream of session p, and of the main loop once a handler or a callback
\* is under way or due
WaitTask(p) ==
    /\ p \in Pids
    /\ pump_wait(p) \/ pump_put_exit(p) \/ pump_put_code(p) \/ pump_release(p)
ReaderTask(p, st) == p \in Pids /\ read_stream(p, st)
MainLoop ==
    \/ \E ok \in BOOLEAN : stop_sig(ok)
    \/ stop_term
    \/ on_capture_finished
    \/ schedule_log_pump

\* Threads that can run do run, and the main loop serves its callbacks.
\* Nothing is assumed of the external process: it exits when it does.
Fairness ==
    /\ \A p \in 1..MaxSessions :
           /\ WF_vars(WaitTask(p))
           /\ \A st \in Streams : WF_vars(ReaderTask(p, st))
    /\ WF_vars(MainLoop)

\* The runs checked under these conditions: those of Profiles in which the
\* fields keep their defaults, on an empty disk and without a configuration
\* file, a process writing at most MaxLiveWrites chunks.
MaxLiveWrites == 1

LiveProfiles ==
    { [q EXCEPT !.writes = IF @ > 0 THEN MaxLiveWrites ELSE 0] :
          q \in {r \in Profiles : ~r.rich} }

InitLive ==
    /\ budget \in LiveProfiles
    /\ fs = [k \in Keys |-> {}]
    /\ saved_next = <<>>
    /\ next_index_by_dir = <<>>
    /\ form = DefaultForm
    /\ built = NoBuilt
    /\ InitApp

SpecLive == InitLive /\ [][Next]_vars /\ Fairness

\* C19: after stop_capture has been called on a present process, the handle
\* is eventually released and the controls are back to idle, so that a new
\* capture can be started, even if the process does not react to SIGINT.
C19_StopLeadsToIdle ==
    (stop_requested /\ proc # NoProc) ~>
        (proc = NoProc /\ start_btn = "normal" /\ stop_btn = "disabled")

\* C20: the log holds a bounded number of lines and loses its oldest lines
\* first: after any sequence of _log calls (lines of the process, exit code
\* entries, messages of the handlers, the two-line "Copied command:" entry
\* included) it never holds more than LOG_LINES_MAX lines, and every change
\* of the log drops lines at its head and adds lines at its end.
C20_LogIsBounded ==
    /\ [](Len(log) <= LOG_LINES_MAX)
    /\ [][ log' # log =>
             \E k \in 0..Len(log) : \E m \in 1..Len(log') :
                 /\ Len(log') = Len(log) - k + m
                 /\ \A i \in 1..(Len(log) - k) : log'[i] = log[k + i] ]_vars

\* C21: a failure of the scan on a child of the base directory does not
\* spoil the allocation: the call still returns, and the directory it
\* returns is never an existing directory prefix + N of the base directory
\* (an index may be skipped, none is used again).
C21_ScanFailureNeverReusesIndex ==
    [][ Allocates =>
          LET r == allocated'[Len(allocated')]
          IN  /\ r.name = r.prefix \o IntToStr(r.idx)
              /\ \A c \in fs[r.key] :
                     (c.is_dir /\ PatMatch(r.prefix, c.name)) =>
                         PatGroup(r.prefix, c.name) # r.idx ]_vars

\* the numeric fields of the configuration and their defaults
NumericFields ==
    { "autosplit_seconds", "size_mb", "csize_mb", "cmincutsize_mb",
      "frames_per_file", "every_nth" }
DefaultOf(field) == IF field = "every_nth" THEN 1 ELSE 0

\* C22: every numeric field of the gathered configuration holds its default
\* (0, or 1 for every_nth) when the entry is empty, is not a number or is
\* negative: no negative number is in the values given to build_dvgrab_cmd.
C22_NumericFieldsCoerced ==
    built.called =>
        \A f \in NumericFields :
            /\ built.values[f] >= 0
            /\ ~DigitsOnly(form[f]) => built.values[f] = DefaultOf(f)

\* C23: the process runs in a process group of its own, and every signal
\* that stop_capture sends goes to that group or to that process, however
\* the handler interleaves with the exit of the process and with the wait
\* thread: never to a group or a process that is not the session's.
C23_SignalsReachOwnProcessOnly ==
    \A i \in 1..Len(stop_calls) :
        stop_calls[i].ok =>
            /\ stop_calls[i].target \in {"group", "process"}
            /\ stop_calls[i].pid \in Pids

\* the entries of the queue but the "[exit]" entry the wait task put there
PutForDisplay(q) ==
    SelectSeq(q, LAMBDA e : ~(e.src[2] = "wait" /\ e.src[3] = 1))

\* the lines of the log that _log makes of a sequence of queue entries
RECURSIVE Displayed(_)
Displayed(q) ==
    IF q = <<>> THEN <<>>
    ELSE InsertedLines(Head(q).text, IF Head(q).tag = "err" THEN "err" ELSE None,
                       Head(q).src) \o Displayed(Tail(q))

IsSuffix(s, t) ==
    /\ Len(s) <= Len(t)
    /\ \A i \in 1..Len(s) : s[i] = t[Len(t) - Len(s) + i]

\* C24: every line a reader has put in the queue is eventually delivered to
\* the log by the poller, once, whatever its text: a poll appends a line for
\* each entry of the queue but the "[exit]" entry of the wait task, in queue
\* order (lines leave the log at its head only, and only when it is full),
\* and a queue that holds entries is eventually polled.
C24_ReaderLinesAllDelivered ==
    /\ [][ (log_q # <<>> /\ log_q' = <<>>) =>
             LET expected == log \o Displayed(PutForDisplay(log_q))
             IN  /\ IsSuffix(log', expected)
                 /\ \/ Len(log') = Len(expected)
                    \/ Len(log') >= LOG_LINES_MAX - 1 ]_vars
    /\ (log_q # <<>>) ~> (log_q = <<>>)

\* C25: whenever the process of a session has exited, by itself or by a
\* signal, whatever its code, the wait task eventually clears the handle of
\* that session and the controls are back to idle (start enabled, stop
\* disabled), also when the wait task left its try block by an exception
\* and put no exit entry; the wait task clears the handle and schedules
\* _on_capture_finished in its last step, and while no session is active the
\* handle is absent, so that start_capture is not refused.
C25_ExitLeadsToIdle ==
    /\ \A p \in 1..MaxSessions :
           (proc = p /\ sessions[p].pstate # "running") ~>
               (proc # p /\ start_btn = "normal" /\ stop_btn = "disabled")
    /\ [][ \A p \in Pids :
             (sessions[p].pump # "done" /\ sessions'[p].pump = "done") =>
                 /\ proc = p
                 /\ proc' = NoProc
                 /\ after_q' = after_q + 1 ]_vars
    /\ [](Active = {} => proc = NoProc)

\* a process ended by a signal, its wait task failed before the exit entry,
\* and the handle is cleared and the controls are idle
C25_Witness ==
    \E p \in Pids :
        /\ sessions[p].ret = <<-2>>
        /\ sessions[p].rd["err"] = "none"
        /\ sessions[p].pump = "done"
        /\ proc = NoProc
        /\ after_q = 0
        /\ start_btn = "normal"
        /\ stop_btn = "disabled"

\* C26: start_capture allocates, creates the target directory, persists the
\* counter, builds the argument vector and only then spawns: the step that
\* spawns a process leaves the directory of its session on disk and the
\* persisted next index of the base directory above the index allocated for
\* it; neither is undone later, so both hold in every state in which a
\* process has been spawned.
C26_SpawnedAfterMkdirAndSave ==
    /\ [][ Len(sessions') > Len(sessions) =>
             LET r == allocated'[Len(allocated')]
                 s == sessions'[Len(sessions')]
             IN  /\ Len(allocated') = Len(allocated) + 1
                 /\ s.dir = PathOf(r.key, r.name)
                 /\ s.cmd[Len(s.cmd)] = BaseToken(s.dir)
                 /\ Dir(r.name) \in fs'[r.key]
                 /\ r.key \in DOMAIN saved_next'
                 /\ saved_next'[r.key] > r.idx ]_vars
    /\ [][ \A k \in Keys :
             /\ fs[k] \subseteq fs'[k]
             /\ k \in DOMAIN saved_next =>
                    (k \in DOMAIN saved_next' /\ saved_next'[k] >= saved_next[k]) ]_vars
    /\ [](\A p \in Pids :
             \E i \in 1..Len(allocated) :
                 /\ sessions[p].dir = PathOf(allocated[i].key, allocated[i].name)
                 /\ Dir(allocated[i].name) \in fs[allocated[i].key]
                 /\ allocated[i].key \in DOMAIN saved_next
                 /\ saved_next[allocated[i].key] > allocated[i].idx)

\* a process runs in a directory whose index comes from the configuration
\* file, above the children found on disk
C26_Witness ==
    /\ Len(sessions) = 1
    /\ proc = 1
    /\ allocated[1].idx = 5
    /\ fs[allocated[1].key] # {Dir(allocated[1].name)}
    /\ saved_next[allocated[1].key] = 6

====
